---- MODULE Spec2Model ----
(***************************************************************************)
(* Model of the `kernel` crate (src/src/lib.rs): the typed physical-memory *)
(* accessor Physical<T> over the two platform primitives                   *)
(* OSEffectiveToPhysical and KernelCopyData.                               *)
(*                                                                         *)
(* Machine words keep their real width.  A word is a little-endian tuple   *)
(* of 16-bit limbs: a u32 is <<l0, l1>> and a usize is <<l0, l1, l2, l3>>  *)
(* at the widest width the crate builds for; a 32-bit host is the case in   *)
(* which l2 = l3 = 0 throughout.  `x as u32` keeps the two low limbs,      *)
(* `u as usize` zero-extends.                                              *)
(***************************************************************************)
EXTENDS Integers, Sequences, FiniteSets, TLC

VARIABLES mem, handle, built, rep, last

vars == <<mem, handle, built, rep, last>>

-----------------------------------------------------------------------------
(* Bounds of the model *)

\* size_of::<T>() of the type the handles are instantiated with
SizeT == 2
\* largest value one byte of modelled memory takes
MaxByte == 1
\* number of handle variables the program holds
NumHandles == 2

-----------------------------------------------------------------------------
(* Machine words *)

LimbBase == 2 ^ 16

Byte == 0 .. MaxByte
Values == [0 .. SizeT - 1 -> Byte]

\* `x as u32` for x: usize
AsU32(x) == <<x[1], x[2]>>

\* `u as usize` for u: u32
AsUsize(u) == <<u[1], u[2], 0, 0>>

\* u + k for a u32 u and a small natural k, wrapping at 2^32
U32Add(u, k) ==
    LET s == u[1] + k
    IN  <<s % LimbBase, (u[2] + (s \div LimbBase)) % LimbBase>>

\* the natural number a small usize literal stands for
NatToUsize(k) == <<k, 0, 0, 0>>

\* x + 2^32 for x: usize (only a host wider than 32 bits has such values)
Plus4G(x) == <<x[1], x[2], x[3] + 1, x[4]>>

FitsU32(x) == x[3] = 0 /\ x[4] = 0

-----------------------------------------------------------------------------
(* The platform: address map, physical memory, block copy *)

\* high limb of the distance between an effective address and its physical one
MapOffsetHi == 16384

\* the hardware mapping the CPU applies to an effective address
MMU(va) == <<va[1], (va[2] + MapOffsetHi) % LimbBase>>

\* c_wut::OSEffectiveToPhysical(u32) -> u32
OSEffectiveToPhysical(va) == MMU(va)

\* c_wut::__OSPhysicalToEffectiveCached(u32) -> u32
OSPhysicalToEffectiveCached(pa) ==
    <<pa[1], (pa[2] + LimbBase - MapOffsetHi) % LimbBase>>

\* c_wut::__OSPhysicalToEffectiveUncached(u32) -> u32
OSPhysicalToEffectiveUncached(pa) ==
    <<pa[1], (pa[2] + LimbBase - MapOffsetHi + (LimbBase \div 2)) % LimbBase>>

\* effective addresses of the two data objects of type T the program owns
XVirt == <<0, 4096>>
YVirt == <<4, 20480>>
\* effective address of the stack slot a callee keeps its local T in
LocalVirt == <<256, 4096>>

Cells(p, n) == {U32Add(p, i) : i \in 0 .. n - 1}

DataPhys == {MMU(XVirt), MMU(YVirt)}
DataCells == UNION {Cells(p, SizeT) : p \in DataPhys}
StackCells == Cells(MMU(LocalVirt), SizeT)

Peek(m, c) == IF c \in DOMAIN m THEN m[c] ELSE 0

\* c - p when the byte c lies in the n bytes starting at p, else -1
Offset(c, p, n) ==
    LET lo == c[1] - p[1]
        hi == (c[2] - p[2] - (IF lo < 0 THEN 1 ELSE 0) + LimbBase) % LimbBase
        off == (lo + LimbBase) % LimbBase
    IN  IF hi = 0 /\ off < n THEN off ELSE -1

\* the T-sized value at physical address p
LoadV(m, p) == [i \in 0 .. SizeT - 1 |-> Peek(m, U32Add(p, i))]

\* memory after the T-sized value v is stored at physical address p
StoreV(m, p, v) ==
    [c \in DOMAIN m |->
        LET i == Offset(c, p, SizeT) IN IF i >= 0 THEN v[i] ELSE m[c]]

\* ordinary load / store of a T through an effective address
VirtLoad(m, va) == LoadV(m, MMU(va))
VirtStore(m, va, v) == StoreV(m, MMU(va), v)

\* C::KernelCopyData(dst: u32, src: u32, count: u32)
KernelCopyData(m, dst, src, count) ==
    LET n == count[1] + LimbBase * count[2]
    IN  [c \in DOMAIN m |->
            LET i == Offset(c, dst, n)
            IN  IF i >= 0 THEN Peek(m, U32Add(src, i)) ELSE m[c]]

\* memory as a callee sees it: the data plus its own stack slot holding
\* `local` (a by-value parameter, or whatever an uninitialised local holds)
Enter(m, local) ==
    [c \in DataCells \cup StackCells |->
        IF c \in DataCells THEN m[c]
        ELSE local[Offset(c, MMU(LocalVirt), SizeT)]]

\* memory that outlives the call: the callee's stack slot is dead
Leave(m) == [c \in DataCells |-> m[c]]

-----------------------------------------------------------------------------
(* Physical<T> *)

\* to_physical with the result widened as a signed value (`as i32 as usize`)
to_physical_sext(virtual_address) ==
    LET arg == AsU32(virtual_address)
        res == OSEffectiveToPhysical(arg)
        ext == IF res[2] >= LimbBase \div 2 THEN LimbBase - 1 ELSE 0
    IN  [ret |-> <<res[1], res[2], ext, ext>>,
         calls |-> <<[fn |-> "OSEffectiveToPhysical", arg |-> arg, ret |-> res]>>]

\* fn to_physical(virtual_address: usize) -> usize
to_physical(virtual_address) ==
    LET arg == AsU32(virtual_address)
        res == OSEffectiveToPhysical(arg)
    IN  [ret |-> AsUsize(res),
         calls |-> <<[fn |-> "OSEffectiveToPhysical", arg |-> arg, ret |-> res]>>]

\* pub fn from_ref(addr: &'a T) -> Physical<'a, T>
from_ref(addr) ==
    LET t == to_physical(addr)
    IN  [self |-> [address |-> t.ret], calls |-> t.calls]

\* pub fn from_ptr(ptr: *const T) -> Physical<'static, T>
from_ptr(ptr) ==
    LET t == to_physical(ptr)
    IN  [self |-> [address |-> t.ret], calls |-> t.calls]

\* from_address that translates its argument as the other constructors do
from_address_translated(physical_address) ==
    LET t == to_physical(physical_address)
    IN  [self |-> [address |-> t.ret], calls |-> t.calls]

\* from_address that keeps only the 32 bits the platform will use
from_address_truncating(physical_address) ==
    [self |-> [address |-> AsUsize(AsU32(physical_address))], calls |-> <<>>]

\* pub fn from_address(physical_address: usize) -> Physical<'static, T>
from_address(physical_address) ==
    [self |-> [address |-> physical_address], calls |-> <<>>]

\* pub fn get_address(&self) -> usize
get_address(self) == self.address

\* pub unsafe fn as_virtual_cached(&self) -> usize
as_virtual_cached(self) == AsUsize(OSPhysicalToEffectiveCached(AsU32(self.address)))

\* pub unsafe fn as_virtual_uncached(&self) -> usize
as_virtual_uncached(self) == AsUsize(OSPhysicalToEffectiveUncached(AsU32(self.address)))

\* copy with the platform call's first two arguments exchanged
copy_swapped(src, dst, count, m) ==
    [mem |-> KernelCopyData(m, AsU32(src.address), AsU32(dst.address), AsU32(count)),
     dst |-> dst,
     calls |-> <<[fn |-> "KernelCopyData", dst |-> AsU32(src.address),
                  src |-> AsU32(dst.address), count |-> AsU32(count)]>>]

\* pub unsafe fn copy<T>(src: &Physical<T>, dst: &mut Physical<T>, count: usize)
copy(src, dst, count, m) ==
    [mem |-> KernelCopyData(m, AsU32(dst.address), AsU32(src.address), AsU32(count)),
     dst |-> dst,
     calls |-> <<[fn |-> "KernelCopyData", dst |-> AsU32(dst.address),
                  src |-> AsU32(src.address), count |-> AsU32(count)]>>]

\* read that copies one byte too few
read_short(self, m) ==
    LET ptr == from_ref(AsUsize(LocalVirt))
        c == copy(self, ptr.self, NatToUsize(SizeT - 1), m)
    IN  [ret |-> VirtLoad(c.mem, LocalVirt), mem |-> c.mem,
         calls |-> ptr.calls \o c.calls]

\* read with the local as the copy source and self as the destination
read_swapped(self, m) ==
    LET ptr == from_ref(AsUsize(LocalVirt))
        c == copy(ptr.self, self, NatToUsize(SizeT), m)
    IN  [ret |-> VirtLoad(c.mem, LocalVirt), mem |-> c.mem,
         calls |-> ptr.calls \o c.calls]

\* pub fn read(&self) -> T        (m already holds the uninitialised local)
read(self, m) ==
    LET ptr == from_ref(AsUsize(LocalVirt))
        c == copy(self, ptr.self, NatToUsize(SizeT), m)
    IN  [ret |-> VirtLoad(c.mem, LocalVirt), mem |-> c.mem,
         calls |-> ptr.calls \o c.calls]

\* write with self as the copy source and the local as the destination
write_swapped(self, value, m) ==
    LET m1 == VirtStore(m, LocalVirt, value)
        ptr == from_ref(AsUsize(LocalVirt))
        c == copy(self, ptr.self, NatToUsize(SizeT), m1)
    IN  [self |-> self, mem |-> c.mem, calls |-> ptr.calls \o c.calls]

\* write that leaves self designating the local (`*self = ptr`)
write_moves_handle(self, value, m) ==
    LET m1 == VirtStore(m, LocalVirt, value)
        ptr == from_ref(AsUsize(LocalVirt))
        c == copy(ptr.self, self, NatToUsize(SizeT), m1)
    IN  [self |-> ptr.self, mem |-> c.mem, calls |-> ptr.calls \o c.calls]

\* pub fn write(&mut self, value: T)   (the parameter `value` is the local)
write(self, value, m) ==
    LET m1 == VirtStore(m, LocalVirt, value)
        ptr == from_ref(AsUsize(LocalVirt))
        c == copy(ptr.self, self, NatToUsize(SizeT), m1)
    IN  [self |-> c.dst, mem |-> c.mem, calls |-> ptr.calls \o c.calls]

-----------------------------------------------------------------------------
(* The program state *)

Handles == 1 .. NumHandles

ZeroUsize == <<0, 0, 0, 0>>
Fill(b) == [i \in 0 .. SizeT - 1 |-> b]
Ramp == [i \in 0 .. SizeT - 1 |-> i % (MaxByte + 1)]
Idle == [active |-> FALSE]
NoCall == [op |-> "none"]

\* what an uninitialised local may hold on entry
Uninit == {Fill(0), Fill(MaxByte)}

\* the T the handle's address designates is inside the modelled memory
Valid(i) ==
    /\ built[i].live
    /\ AsU32(handle[i].address) \in DataPhys

\* inputs the callers pass
RefInputs == {AsUsize(XVirt), AsUsize(YVirt)}
PtrInputs == {AsUsize(XVirt), AsUsize(YVirt), Plus4G(AsUsize(XVirt))}
AddrInputs == {AsUsize(MMU(XVirt)), AsUsize(MMU(YVirt)), Plus4G(AsUsize(MMU(XVirt)))}
CountInputs == {NatToUsize(k) : k \in 0 .. SizeT} \cup {Plus4G(NatToUsize(1))}
ValueInputs == {Fill(0), Fill(MaxByte), Ramp}

\* values another actor of the machine stores
EnvValues == {Fill(0), Fill(MaxByte)}

\* the program is between two calls
Ready == ~rep.active /\ last.op = "none"

Init ==
    /\ mem = [c \in DataCells |-> 0]
    /\ handle = [i \in Handles |-> [address |-> ZeroUsize]]
    /\ built = [i \in Handles |-> [live |-> FALSE, address |-> ZeroUsize]]
    /\ rep = Idle
    /\ last = NoCall

Construct(i, ctor, input, r) ==
    /\ Ready
    /\ handle' = [handle EXCEPT ![i] = r.self]
    /\ built' = [built EXCEPT ![i] = [live |-> TRUE, address |-> r.self.address]]
    /\ last' = [op |-> ctor, h |-> i, input |-> input, calls |-> r.calls]
    /\ UNCHANGED <<mem, rep>>

FromRef(i) == \E x \in RefInputs : Construct(i, "from_ref", x, from_ref(x))

FromPtr(i) == \E p \in PtrInputs : Construct(i, "from_ptr", p, from_ptr(p))

FromAddress(i) == \E a \in AddrInputs : Construct(i, "from_address", a, from_address(a))

GetAddress(i) ==
    /\ Ready
    /\ built[i].live
    /\ last' = [op |-> "get_address", h |-> i, ret |-> get_address(handle[i])]
    /\ UNCHANGED <<mem, handle, built, rep>>

AsVirtualCached(i) ==
    /\ Ready
    /\ built[i].live
    /\ last' = [op |-> "as_virtual_cached", h |-> i, ret |-> as_virtual_cached(handle[i])]
    /\ UNCHANGED <<mem, handle, built, rep>>

AsVirtualUncached(i) ==
    /\ Ready
    /\ built[i].live
    /\ last' = [op |-> "as_virtual_uncached", h |-> i, ret |-> as_virtual_uncached(handle[i])]
    /\ UNCHANGED <<mem, handle, built, rep>>

Read(i) ==
    /\ Ready
    /\ Valid(i)
    /\ \E junk \in Uninit :
        LET r == read(handle[i], Enter(mem, junk))
        IN  /\ mem' = Leave(r.mem)
            /\ last' = [op |-> "read", h |-> i, ret |-> r.ret, calls |-> r.calls]
    /\ UNCHANGED <<handle, built, rep>>

Write(i) ==
    /\ Ready
    /\ Valid(i)
    /\ \E v \in ValueInputs :
        LET w == write(handle[i], v, Enter(mem, Fill(0)))
        IN  /\ mem' = Leave(w.mem)
            /\ handle' = [handle EXCEPT ![i] = w.self]
            /\ last' = [op |-> "write", h |-> i, arg |-> v, calls |-> w.calls]
    /\ UNCHANGED <<built, rep>>

Copy(s, d) ==
    /\ Ready
    /\ Valid(s)
    /\ Valid(d)
    /\ \E n \in CountInputs :
        LET c == copy(handle[s], handle[d], n, mem)
        IN  /\ mem' = c.mem
            /\ handle' = [handle EXCEPT ![d] = c.dst]
            /\ last' = [op |-> "copy", src |-> s, dst |-> d, n |-> n,
                        was |-> LoadV(mem, AsU32(handle[s].address)),
                        calls |-> c.calls]
    /\ UNCHANGED <<built, rep>>

\* replace, first half: `let prev = self.read();`
ReplaceRead(i) ==
    /\ Ready
    /\ Valid(i)
    /\ \E b \in ValueInputs, junk \in Uninit :
        LET r == read(handle[i], Enter(mem, junk))
        IN  /\ mem' = Leave(r.mem)
            /\ rep' = [active |-> TRUE, h |-> i, value |-> b, prev |-> r.ret,
                       a0 |-> LoadV(mem, AsU32(handle[i].address)), env |-> <<>>]
    /\ UNCHANGED <<handle, built, last>>

\* replace that returns the value it was given
ReplaceWrite_returns_new ==
    /\ rep.active
    /\ LET w == write(handle[rep.h], rep.value, Enter(mem, Fill(0)))
       IN  /\ mem' = Leave(w.mem)
           /\ handle' = [handle EXCEPT ![rep.h] = w.self]
           /\ last' = [op |-> "replace", h |-> rep.h, arg |-> rep.value,
                       ret |-> rep.value, a0 |-> rep.a0, env |-> rep.env]
    /\ rep' = Idle
    /\ UNCHANGED built

\* replace that returns what the memory holds at the time of its write
ReplaceWrite_rereads ==
    /\ rep.active
    /\ LET w == write(handle[rep.h], rep.value, Enter(mem, Fill(0)))
       IN  /\ mem' = Leave(w.mem)
           /\ handle' = [handle EXCEPT ![rep.h] = w.self]
           /\ last' = [op |-> "replace", h |-> rep.h, arg |-> rep.value,
                       ret |-> LoadV(mem, AsU32(handle[rep.h].address)),
                       a0 |-> rep.a0, env |-> rep.env]
    /\ rep' = Idle
    /\ UNCHANGED built

\* replace, second half: `self.write(value); prev`
ReplaceWrite ==
    /\ rep.active
    /\ LET w == write(handle[rep.h], rep.value, Enter(mem, Fill(0)))
       IN  /\ mem' = Leave(w.mem)
           /\ handle' = [handle EXCEPT ![rep.h] = w.self]
           /\ last' = [op |-> "replace", h |-> rep.h, arg |-> rep.value,
                       ret |-> rep.prev, a0 |-> rep.a0, env |-> rep.env]
    /\ rep' = Idle
    /\ UNCHANGED built

\* the caller takes the result of the call that has just returned
Return ==
    /\ last.op # "none"
    /\ last' = NoCall
    /\ UNCHANGED <<mem, handle, built, rep>>

\* another actor of the machine stores c at a physical address, between two
\* calls of the program or between the two halves of a replace
EnvWrite ==
    /\ last.op = "none"
    /\ \E p \in DataPhys, c \in EnvValues :
        /\ mem' = StoreV(mem, p, c)
        /\ rep' = IF rep.active /\ p = AsU32(handle[rep.h].address)
                  THEN [rep EXCEPT !.env = <<c>>]
                  ELSE rep
    /\ UNCHANGED <<handle, built, last>>

Next ==
    \/ \E i \in Handles : FromRef(i)
    \/ \E i \in Handles : FromPtr(i)
    \/ \E i \in Handles : FromAddress(i)
    \/ \E i \in Handles : GetAddress(i)
    \/ \E i \in Handles : AsVirtualCached(i)
    \/ \E i \in Handles : AsVirtualUncached(i)
    \/ \E i \in Handles : Read(i)
    \/ \E i \in Handles : Write(i)
    \/ \E s \in Handles, d \in Handles : Copy(s, d)
    \/ \E i \in Handles : ReplaceRead(i)
    \/ ReplaceWrite
    \/ Return
    \/ EnvWrite

Spec == Init /\ [][Next]_vars

TypeOK ==
    /\ mem \in [DataCells -> Byte]
    /\ rep.active \in BOOLEAN
    /\ \A i \in Handles : built[i].live \in BOOLEAN

-----------------------------------------------------------------------------
(* Properties.  Each is stated at the return of the call it is about, where   *)
(* `last` holds the call's arguments and result; "a subsequent read" is what  *)
(* read yields when called in that state.                                     *)

\* the T the memory holds at the address of handle variable i
At(i) == LoadV(mem, AsU32(handle[i].address))

\* what h.read() returns when called now, for each content the local may have
ReadNow(i) == {read(handle[i], Enter(mem, junk)).ret : junk \in Uninit}

\* a value whose bytes are not all alike
Mixed(v) == v[0] # v[SizeT - 1]

\* C1: a read through a handle directly after a write through the same handle
\* (nothing else touching the memory in between) returns the value written.
C1_WriteThenRead ==
    last.op = "write" => ReadNow(last.h) = {last.arg}

C1_Witness ==
    /\ last.op = "write"
    /\ Mixed(last.arg)
    /\ ~FitsU32(handle[last.h].address)
    /\ ReadNow(last.h) = {last.arg}

\* C2: a read directly after from_ref(&v) returns the value the variable v
\* holds, i.e. what an ordinary load through v's effective address yields.
C2_FromRefRoundTrip ==
    last.op = "from_ref"
        => /\ get_address(handle[last.h]) = AsUsize(OSEffectiveToPhysical(AsU32(last.input)))
           /\ ReadNow(last.h) = {VirtLoad(mem, AsU32(last.input))}

C2_Witness ==
    /\ last.op = "from_ref"
    /\ last.input = AsUsize(YVirt)
    /\ Mixed(VirtLoad(mem, YVirt))
    /\ ReadNow(last.h) = {VirtLoad(mem, YVirt)}

\* C3: a replace(b) that no other actor interferes with returns the value a the
\* memory held when it started and leaves b in the memory, which a read
\* directly after it returns.
C3_Replace ==
    (last.op = "replace" /\ last.env = <<>>)
        => (last.ret = last.a0 /\ ReadNow(last.h) = {last.arg})

C3_Witness ==
    /\ last.op = "replace" /\ last.env = <<>>
    /\ Mixed(last.a0) /\ last.arg # last.a0 /\ last.arg # Fill(0)
    /\ last.ret = last.a0

C5_FromAddressVerbatim ==
    (last.op = "from_address" /\ FitsU32(last.input))
        => (get_address(handle[last.h]) = last.input /\ last.calls = <<>>)

C5_Witness ==
    /\ last.op = "from_address"
    /\ last.input = AsUsize(MMU(YVirt))
    /\ get_address(handle[last.h]) = last.input

\* C6: whatever calls were made since, get_address() of a handle returns the
\* address the handle was constructed with.
C6_AddressImmutable ==
    /\ \A i \in Handles : built[i].live => get_address(handle[i]) = built[i].address
    /\ last.op = "get_address" => last.ret = built[last.h].address

C6_Witness ==
    /\ last.op = "get_address"
    /\ Mixed(At(last.h))
    /\ last.ret = built[last.h].address

\* C7: from_ref / from_ptr of an effective address v fitting 32 bits hand
\* exactly v to OSEffectiveToPhysical, once, and store its 32-bit result
\* zero-extended.
C7_TranslationExchange ==
    (last.op \in {"from_ref", "from_ptr"} /\ FitsU32(last.input))
        => /\ Len(last.calls) = 1
           /\ last.calls[1].fn = "OSEffectiveToPhysical"
           /\ <<last.calls[1].arg[1], last.calls[1].arg[2], 0, 0>> = last.input
           /\ last.calls[1].ret = OSEffectiveToPhysical(last.calls[1].arg)
           /\ handle[last.h].address
                = <<last.calls[1].ret[1], last.calls[1].ret[2], 0, 0>>

C7_Witness ==
    /\ last.op = "from_ptr"
    /\ last.input = AsUsize(YVirt)
    /\ handle[last.h].address[2] >= LimbBase \div 2

\* C8: when another actor stored c at the handle's address between replace's
\* read and replace's write, replace(b) returns the value a held before c and
\* leaves b; c shows in neither.
C8_ReplaceLostUpdate ==
    (last.op = "replace" /\ last.env # <<>>)
        => /\ last.ret = last.a0
           /\ At(last.h) = last.arg
           /\ (last.env[1] # last.a0 /\ last.env[1] # last.arg)
                => (last.ret # last.env[1] /\ At(last.h) # last.env[1])

C8_Witness ==
    /\ last.op = "replace" /\ last.env # <<>>
    /\ last.env[1] # last.a0 /\ last.env[1] # last.arg
    /\ last.ret # last.env[1] /\ At(last.h) # last.env[1]

\* C9: a read leaves the memory as it found it (only its own local is written).
C9_ReadKeepsSource == [][\A i \in Handles : Read(i) => mem' = mem]_vars

C9_Witness ==
    /\ last.op = "read"
    /\ handle[last.h].address = AsUsize(MMU(XVirt))
    /\ Mixed(last.ret)
    /\ VirtLoad(mem, XVirt) = last.ret

\* C10: the handle keeps the full usize address (get_address() of
\* from_address(addr) is addr, also for addr >= 2^32), the platform is handed
\* address and count modulo 2^32, and so a write through one handle is read
\* back through any handle whose address is the same modulo 2^32.
C10_TruncatedAddressing ==
    /\ last.op = "from_address" => get_address(handle[last.h]) = last.input
    /\ last.op = "copy"
        => last.calls = <<[fn |-> "KernelCopyData",
                           dst |-> <<handle[last.dst].address[1], handle[last.dst].address[2]>>,
                           src |-> <<handle[last.src].address[1], handle[last.src].address[2]>>,
                           count |-> <<last.n[1], last.n[2]>>]>>
    /\ last.op \in {"read", "write"}
        => /\ last.calls[2].fn = "KernelCopyData"
           /\ handle[last.h].address[1]
                = (IF last.op = "read" THEN last.calls[2].src ELSE last.calls[2].dst)[1]
           /\ handle[last.h].address[2]
                = (IF last.op = "read" THEN last.calls[2].src ELSE last.calls[2].dst)[2]
    /\ last.op = "write"
        => \A j \in Handles :
              (/\ built[j].live
               /\ handle[j].address[1] = handle[last.h].address[1]
               /\ handle[j].address[2] = handle[last.h].address[2])
                  => ReadNow(j) = {last.arg}

C10_Witness ==
    /\ last.op = "write"
    /\ ~FitsU32(get_address(handle[last.h]))
    /\ Mixed(last.arg)
    /\ \E j \in Handles :
          /\ built[j].live
          /\ get_address(handle[j]) # get_address(handle[last.h])
          /\ ReadNow(j) = {last.arg}

====
